---- MODULE Spec2Model ----
(***************************************************************************)
(* Model of the two animation scenes of prog-animations:                   *)
(*   - Fact (ocaml.py): recursive evaluation of `fact n`                   *)
(*   - SquareOfPred (ocaml.py and seminar.py): evaluation of               *)
(*     `square_of_pred x`                                                  *)
(* together with the CallContext class both scenes use.  A Mobject is      *)
(* modelled by the TeX source it currently displays; the sequence of       *)
(* evaluation-relevant animations played on the scene is kept in `trace`.  *)
(***************************************************************************)
EXTENDS Integers, Sequences, FiniteSets, TLC

\* ------------------------------------------------------------------ bounds
\* Fact.construct_call is explored for every val in -MaxNeg .. MaxVal
MaxVal == 3
MaxNeg == 2
\* SquareOfPred.construct_call is explored for every val in -MaxNeg .. MaxX
MaxX == 5
\* camera shift vectors are drawn from 1 .. MaxShift (displacement on one axis)
MaxShift == 2
\* number of add calls explored on a stand-alone CallContext
MaxAdds == 3

\* The interpreter's recursion limit, scaled to the explored arguments: every
\* non-negative argument fits (val + 1 frames), a runaway recursion does not.
RecursionLimit == MaxVal + 2

Vals == (0 - MaxNeg) .. MaxVal
SqVals == (0 - MaxNeg) .. MaxX
ShiftVectors == 1 .. MaxShift

\* ----------------------------------------------------------- text helpers
\* the f-string "\\verb|{...}|"
Verb(s) == "\\verb|" \o s \o "|"

\* Python's formatting of an int inside an f-string
Str(i) == ToString(i)

\* str(b).lower() of a Python bool
Lower(b) == IF b THEN "true" ELSE "false"

\* What a TeX source shows once rendered, for the names used by the scenes:
\* \verb|..| shows its body, and \_ shows an underscore.
Rendered(tex) ==
    CASE tex = "\\verb|n|" -> "n"
      [] tex = "\\verb|x|" -> "x"
      [] tex = "\\verb|pred_x|" -> "pred_x"
      [] tex = "pred\\_x" -> "pred_x"
      [] OTHER -> tex

\* a VDict that still displays its sub-mobjects (not yet transformed as a whole)
Parts == "<parts>"

\* ------------------------------------------------------------ CallContext
\* entry 0 of CallContext.entries: the title line, which has no "val"
Title == [kind |-> "title", name |-> "Contexte~:"]

\* CallContext.__init__: the entries group holds the title only
NewEntries == << Title >>

\* CallContext.add: the association appended to self.entries
AddNothing(entries, name, val_orig) == entries
Add(entries, name, val_orig) ==
    Append(entries, [kind |-> "assoc", name |-> name, val |-> val_orig])

\* self.entries[index] with Python's indexing of a list (0-based, negative
\* indices count from the end)
EntryAtFirst(entries, index) ==
    IF index < 0 THEN entries[2] ELSE entries[index + 1]
EntryAt(entries, index) ==
    IF index < 0 THEN entries[Len(entries) + index + 1] ELSE entries[index + 1]

\* CallContext.replace_occurrence: what the occurrence is transformed into,
\* entry["val"].copy()
ReplaceOccurrence(entries, index) == EntryAt(entries, index).val

\* entry["val"] exists for an association only: the title line is a
\* TextMobject, and indexing it by a string raises
HasVal(entries, index) == EntryAt(entries, index).kind = "assoc"

\* ------------------------------------------------------------- Fact: data
\* Fact.get_def without "fn": the parts of a fresh instance of the definition
FactInstance ==
    [ if_cond_n      |-> Verb("n"),
      if_cond        |-> Parts,
      base           |-> Verb("1"),
      rec_n          |-> Verb("n"),
      rec_call_arg_n |-> Verb("n"),
      rec_call_arg   |-> Parts,
      rec_call       |-> Parts,
      rec            |-> Parts,
      faded          |-> {} ]

\* the test of the two `if val == 0` of eval_call (end of recursion)
IsBaseAtOne(val) == val <= 1
IsBase(val) == val = 0

\* the choice of the branch that is kept (good) by eval_call
GoodArmSwapped(val) == IF val = 0 THEN "rec" ELSE "base"
GoodArm(val) == IF val = 0 THEN "base" ELSE "rec"

BadArm(val) == IF GoodArm(val) = "base" THEN "rec" ELSE "base"

\* the text the argument of the recursive call is replaced by, f"{val - 1}"
ArgText(val) == Verb(Str(val - 1))

\* the val given to the recursive call, `val - 1`
PredStuck(val) == val
Pred(val) == val - 1

\* res = val * recursive_call_res
FactSum(val, recursive_call_res) == val + recursive_call_res
FactRes(val, recursive_call_res) == val * recursive_call_res

\* a new activation of eval_call(call, val, val_mobject)
Frame(val, val_mobject) ==
    [ call         |-> FactInstance,
      val          |-> val,
      val_mobject  |-> val_mobject,
      context      |-> << >>,
      shift_vector |-> 0,
      res          |-> 0,
      recursive_call_res         |-> 0,
      recursive_call_res_mobject |-> "" ]

\* the activation made by the recursive call
\* self.eval_call(def_instance, val - 1, call["rec"]["call"]["arg"])
CalleeFrameStale(caller) == Frame(Pred(caller.val), caller.val_mobject)
CalleeFrame(caller) == Frame(Pred(caller.val), caller.call.rec_call_arg)

\* -------------------------------------------------------- SquareOfPred: data
\* SquareOfPred.get_def without "fn"
SqInstance ==
    [ pred_def_val_x |-> Verb("x"),
      pred_def_val   |-> Parts,
      op1            |-> Verb("pred_x"),
      op2            |-> Verb("pred_x"),
      res            |-> Parts,
      faded          |-> {} ]

\* the value shown for pred_x, `val-1`, in ocaml.py and in seminar.py
SqPredSucc(val) == val + 1
SqPred(val) == val - 1
SeminarSqPred(val) == val - 1
SqPredOf(file, val) == IF file = "seminar" THEN SeminarSqPred(val) ELSE SqPred(val)

\* the final value shown, `(val-1) * (val-1)`, in ocaml.py and in seminar.py
SqResOff(val) == val * val - 1
SqRes(val) == (val - 1) * (val - 1)
SeminarSqRes(val) == (val - 1) * (val - 1)
SqResOf(file, val) == IF file = "seminar" THEN SeminarSqRes(val) ELSE SqRes(val)

\* ------------------------------------------------------------------ state
VARIABLES
    scene,          \* "Fact" or "SquareOfPred": the scene being constructed
    module,         \* "ocaml" or "seminar": the file the scene comes from
    arg,            \* the val given to construct_call
    pc,             \* position in construct_call / the running eval_call
    call,           \* construct_call's `call` VDict (name, val)
    stack,          \* activations of Fact.eval_call, outermost first
    def_instance,   \* SquareOfPred.construct_call's def_instance
    context,        \* SquareOfPred.construct_call's context.entries
    shown,          \* the contexts displayed on the scene (by depth)
    camera_frame,   \* displacement of the camera frame
    def_box,        \* displacement of the definition box
    result,         \* what construct_call ends with: value and Mobject
    raised,         \* the exception that ended the scene, if any
    trace           \* the evaluation steps played so far

vars == << scene, module, arg, pc, call, stack, def_instance, context, shown,
           camera_frame, def_box, result, raised, trace >>

\* one evaluation step as played on the scene
Ev(kind, depth, val, target, name, before, text, res) ==
    [ kind |-> kind, depth |-> depth, val |-> val, target |-> target,
      name |-> name, before |-> before, text |-> text, res |-> res ]

Top == stack[Len(stack)]
Depth == Len(stack) - 1

NoResult == [ val |-> 0, mobject |-> "", set |-> FALSE ]

Init ==
    /\ scene \in {"Fact", "SquareOfPred"}
    /\ module \in {"ocaml", "seminar"}
    /\ scene = "Fact" => module = "ocaml"
    /\ arg \in (IF scene = "Fact" THEN Vals ELSE SqVals)
    /\ pc = "start"
    /\ call = [ name |-> "", val |-> "" ]
    /\ stack = << >>
    /\ def_instance = SqInstance
    /\ context = << >>
    /\ shown = {}
    /\ camera_frame = 0
    /\ def_box = 0
    /\ result = NoResult
    /\ raised = "none"
    /\ trace = << >>


\* ApplyMethod(self.camera_frame.shift, shift_vector) and
\* ApplyMethod(self.camera_frame.shift, -shift_vector), the same for def_box
Shift(pos, shift_vector) == pos + shift_vector
UnshiftAgain(pos, shift_vector) == pos + shift_vector
Unshift(pos, shift_vector) == pos - shift_vector

\* self.play(*map(m.FadeOut, context.entries)) / m.FadeOut(context.entries):
\* the entries of the context of the call at `depth` leave the screen
KeepEntries(live, depth) == live
FadeOutEntries(live, depth) == live \ {depth}

\* ------------------------------------------------------- Fact: control flow
\* the order of the statements of eval_call: the position that follows `at`
EvalCallNextLeftFirst(at, val) ==
    CASE at = "ctx"         -> "add"
      [] at = "add"         -> "cond_subst"
      [] at = "cond_subst"  -> "cond_reduce"
      [] at = "cond_reduce" -> "branch"
      [] at = "branch"      -> IF IsBase(val) THEN "ret_base" ELSE "left_subst"
      [] at = "left_subst"  -> "arg_subst"
      [] at = "arg_subst"   -> "arg_reduce"
      [] at = "arg_reduce"  -> "shift"
      [] at = "shift"       -> "call"
      [] at = "unshift"     -> "rec_reduce"
      [] at = "rec_reduce"  -> "ret_rec"
EvalCallNext(at, val) ==
    CASE at = "ctx"         -> "add"
      [] at = "add"         -> "cond_subst"
      [] at = "cond_subst"  -> "cond_reduce"
      [] at = "cond_reduce" -> "branch"
      [] at = "branch"      -> IF IsBase(val) THEN "ret_base" ELSE "arg_subst"
      [] at = "arg_subst"   -> "arg_reduce"
      [] at = "arg_reduce"  -> "shift"
      [] at = "shift"       -> "call"
      [] at = "unshift"     -> "left_subst"
      [] at = "left_subst"  -> "rec_reduce"
      [] at = "rec_reduce"  -> "ret_rec"

\* the running activation with its `call` Mobject / its context changed
SetCall(stk, field, text) ==
    [stk EXCEPT ![Len(stk)].call = [@ EXCEPT ![field] = text]]

\* context.add on the context of the running activation: `context` is a local
\* of eval_call, so only that activation's entries grow
AddToAll(stk, name, val_orig) ==
    [d \in 1 .. Len(stk) |->
        [stk[d] EXCEPT !.context =
            IF @ = << >> THEN @ ELSE Add(@, name, val_orig)]]
AddToTop(stk, name, val_orig) ==
    [stk EXCEPT ![Len(stk)].context = Add(@, name, val_orig)]

\* `return res, mobject` of eval_call: the activation is dropped and the pair
\* is handed to the caller (an outer eval_call, or construct_call)
Return(res, mobject) ==
    IF Len(stack) = 1
    THEN /\ stack' = << >>
         /\ result' = [ val |-> res, mobject |-> mobject, set |-> TRUE ]
         /\ pc' = "wrapup"
    ELSE /\ stack' = [SubSeq(stack, 1, Len(stack) - 1) EXCEPT
                        ![Len(stack) - 1].recursive_call_res = res,
                        ![Len(stack) - 1].recursive_call_res_mobject = mobject]
         /\ pc' = "unshift"
         /\ UNCHANGED result

\* --------------------------------------------------------- Fact: actions
\* Fact.construct_call up to the call of eval_call(def_instance, val, call["val"])
FactConstructCall ==
    /\ pc = "start" /\ scene = "Fact"
    /\ call' = [ name |-> Verb("fact"), val |-> Verb(Str(arg)) ]
    /\ stack' = << Frame(arg, call'.val) >>
    /\ pc' = "ctx"
    /\ UNCHANGED << scene, module, arg, def_instance, context, shown,
                    camera_frame, def_box, result, raised, trace >>

\* context = CallContext(call, self)
FactNewContext ==
    /\ pc = "ctx" /\ scene = "Fact"
    /\ stack' = [stack EXCEPT ![Len(stack)].context = NewEntries]
    /\ shown' = shown \cup {Depth}
    /\ trace' = Append(trace, Ev("Context", Depth, Top.val, "", "", "", "", 0))
    /\ pc' = EvalCallNext("ctx", Top.val)
    /\ UNCHANGED << scene, module, arg, call, def_instance, context,
                    camera_frame, def_box, result, raised >>

\* context.add("n", val_mobject)
FactBindN ==
    /\ pc = "add" /\ scene = "Fact"
    /\ stack' = AddToTop(stack, "n", Top.val_mobject)
    /\ trace' = Append(trace, Ev("Bind", Depth, Top.val, "", "n", "",
                                 Top.val_mobject, 0))
    /\ pc' = EvalCallNext("add", Top.val)
    /\ UNCHANGED << scene, module, arg, call, def_instance, context, shown,
                    camera_frame, def_box, result, raised >>

\* context.replace_occurrence(-1, occurrence) on a part of the running call
FactSubstitute(at, field, target) ==
    /\ pc = at /\ scene = "Fact"
    /\ IF HasVal(Top.context, -1)
       THEN /\ stack' = SetCall(stack, field, ReplaceOccurrence(Top.context, -1))
            /\ trace' = Append(trace, Ev("Substitute", Depth, Top.val, target,
                                         EntryAt(Top.context, -1).name,
                                         Top.call[field],
                                         ReplaceOccurrence(Top.context, -1), 0))
            /\ pc' = EvalCallNext(at, Top.val)
            /\ raised' = raised
       ELSE /\ raised' = "TypeError"
            /\ pc' = "crashed"
            /\ UNCHANGED << stack, trace >>
    /\ UNCHANGED << scene, module, arg, call, def_instance, context, shown,
                    camera_frame, def_box, result >>

\* context.replace_occurrence(-1, call["if"]["cond"]["n"])
FactCondSubst == FactSubstitute("cond_subst", "if_cond_n", "if.cond.n")

\* replace_expr(self, call["if"]["cond"], str(val == 0).lower())
FactCondReduce ==
    /\ pc = "cond_reduce" /\ scene = "Fact"
    /\ stack' = SetCall(stack, "if_cond", Verb(Lower(Top.val = 0)))
    /\ trace' = Append(trace, Ev("Reduce", Depth, Top.val, "if.cond", "",
                                 Top.call.if_cond, Verb(Lower(Top.val = 0)), 0))
    /\ pc' = EvalCallNext("cond_reduce", Top.val)
    /\ UNCHANGED << scene, module, arg, call, def_instance, context, shown,
                    camera_frame, def_box, result, raised >>

\* the choice of good/bad and the fading out of if, bad and else
FactBranch ==
    /\ pc = "branch" /\ scene = "Fact"
    /\ stack' = SetCall(stack, "faded", {"if", BadArm(Top.val), "else"})
    /\ trace' = Append(trace, Ev("Branch", Depth, Top.val, GoodArm(Top.val),
                                 "", "", Top.call.if_cond, 0))
    /\ pc' = EvalCallNext("branch", Top.val)
    /\ UNCHANGED << scene, module, arg, call, def_instance, context, shown,
                    camera_frame, def_box, result, raised >>

\* if val == 0: fade the context out, return 1, call["base"]
FactReturnBase ==
    /\ pc = "ret_base" /\ scene = "Fact"
    /\ shown' = FadeOutEntries(shown, Depth)
    /\ trace' = Append(trace, Ev("Return", Depth, Top.val, "base", "", "",
                                 Top.call.base, 1))
    /\ Return(1, Top.call.base)
    /\ UNCHANGED << scene, module, arg, call, def_instance, context,
                    camera_frame, def_box, raised >>

\* context.replace_occurrence(-1, call["rec"]["call"]["arg"]["n"])
FactArgSubst == FactSubstitute("arg_subst", "rec_call_arg_n", "rec.call.arg.n")

\* replace_expr(self, call["rec"]["call"]["arg"], f"{val - 1}")
FactArgReduce ==
    /\ pc = "arg_reduce" /\ scene = "Fact"
    /\ stack' = SetCall(stack, "rec_call_arg", ArgText(Top.val))
    /\ trace' = Append(trace, Ev("Reduce", Depth, Top.val, "rec.call.arg", "",
                                 Top.call.rec_call_arg, ArgText(Top.val), 0))
    /\ pc' = EvalCallNext("arg_reduce", Top.val)
    /\ UNCHANGED << scene, module, arg, call, def_instance, context, shown,
                    camera_frame, def_box, result, raised >>

\* the instance of the callee is shown; camera and definition box are shifted
FactShift ==
    /\ pc = "shift" /\ scene = "Fact"
    /\ \E shift_vector \in ShiftVectors :
          /\ stack' = [stack EXCEPT ![Len(stack)].shift_vector = shift_vector]
          /\ camera_frame' = Shift(camera_frame, shift_vector)
          /\ def_box' = Shift(def_box, shift_vector)
    /\ pc' = EvalCallNext("shift", Top.val)
    /\ UNCHANGED << scene, module, arg, call, def_instance, context, shown,
                    result, raised, trace >>

\* self.eval_call(def_instance, val - 1, call["rec"]["call"]["arg"])
FactRecursiveCall ==
    /\ pc = "call" /\ scene = "Fact"
    /\ Len(stack) < RecursionLimit
    /\ stack' = Append(stack, CalleeFrame(Top))
    /\ pc' = "ctx"
    /\ UNCHANGED << scene, module, arg, call, def_instance, context, shown,
                    camera_frame, def_box, result, raised, trace >>

\* the same call once the interpreter's recursion limit is reached
FactRecursionError ==
    /\ pc = "call" /\ scene = "Fact"
    /\ Len(stack) >= RecursionLimit
    /\ raised' = "RecursionError"
    /\ pc' = "crashed"
    /\ UNCHANGED << scene, module, arg, call, stack, def_instance, context,
                    shown, camera_frame, def_box, result, trace >>

\* after the recursive call: the shift is undone and the result of the call
\* takes the place of call["rec"]["call"]
FactUnshift ==
    /\ pc = "unshift" /\ scene = "Fact"
    /\ camera_frame' = Unshift(camera_frame, Top.shift_vector)
    /\ def_box' = Unshift(def_box, Top.shift_vector)
    /\ stack' = SetCall(stack, "rec_call", Top.recursive_call_res_mobject)
    /\ pc' = EvalCallNext("unshift", Top.val)
    /\ UNCHANGED << scene, module, arg, call, def_instance, context, shown,
                    result, raised, trace >>

\* context.replace_occurrence(-1, call["rec"]["n"])
FactLeftSubst == FactSubstitute("left_subst", "rec_n", "rec.n")

\* res = val * recursive_call_res; replace_expr(self, call["rec"], f"{res}")
FactRecReduce ==
    /\ pc = "rec_reduce" /\ scene = "Fact"
    /\ LET res == FactRes(Top.val, Top.recursive_call_res) IN
          /\ stack' = [SetCall(stack, "rec", Verb(Str(res)))
                          EXCEPT ![Len(stack)].res = res]
          /\ trace' = Append(trace, Ev("Reduce", Depth, Top.val, "rec", "",
                                       Top.call.rec, Verb(Str(res)), res))
    /\ pc' = EvalCallNext("rec_reduce", Top.val)
    /\ UNCHANGED << scene, module, arg, call, def_instance, context, shown,
                    camera_frame, def_box, result, raised >>

\* fade the context out, return res, call["rec"]
FactReturnRec ==
    /\ pc = "ret_rec" /\ scene = "Fact"
    /\ shown' = FadeOutEntries(shown, Depth)
    /\ trace' = Append(trace, Ev("Return", Depth, Top.val, "rec", "", "",
                                 Top.call.rec, Top.res))
    /\ Return(Top.res, Top.call.rec)
    /\ UNCHANGED << scene, module, arg, call, def_instance, context,
                    camera_frame, def_box, raised >>

\* the last play of Fact.construct_call
FactWrapUp ==
    /\ pc = "wrapup" /\ scene = "Fact"
    /\ pc' = "done"
    /\ UNCHANGED << scene, module, arg, call, stack, def_instance, context,
                    shown, camera_frame, def_box, result, raised, trace >>

\* ------------------------------------------------------ SquareOfPred: flow
\* the order of the statements of SquareOfPred.construct_call
SqNextLeftFirst(at) ==
    CASE at = "start"          -> "sq_ctx"
      [] at = "sq_ctx"         -> "sq_add_x"
      [] at = "sq_add_x"       -> "sq_subst_x"
      [] at = "sq_subst_x"     -> "sq_reduce_pred"
      [] at = "sq_reduce_pred" -> "sq_add_pred"
      [] at = "sq_add_pred"    -> "sq_subst_op1"
      [] at = "sq_subst_op1"   -> "sq_subst_op2"
      [] at = "sq_subst_op2"   -> "sq_reduce_res"
      [] at = "sq_reduce_res"  -> "sq_wrapup"
      [] at = "sq_wrapup"      -> "done"
SqNext(at) ==
    CASE at = "start"          -> "sq_ctx"
      [] at = "sq_ctx"         -> "sq_add_x"
      [] at = "sq_add_x"       -> "sq_subst_x"
      [] at = "sq_subst_x"     -> "sq_reduce_pred"
      [] at = "sq_reduce_pred" -> "sq_add_pred"
      [] at = "sq_add_pred"    -> "sq_subst_op2"
      [] at = "sq_subst_op2"   -> "sq_subst_op1"
      [] at = "sq_subst_op1"   -> "sq_reduce_res"
      [] at = "sq_reduce_res"  -> "sq_wrapup"
      [] at = "sq_wrapup"      -> "done"

\* the same order in seminar.py
SeminarSqNext(at) ==
    CASE at = "start"          -> "sq_ctx"
      [] at = "sq_ctx"         -> "sq_add_x"
      [] at = "sq_add_x"       -> "sq_subst_x"
      [] at = "sq_subst_x"     -> "sq_reduce_pred"
      [] at = "sq_reduce_pred" -> "sq_add_pred"
      [] at = "sq_add_pred"    -> "sq_subst_op2"
      [] at = "sq_subst_op2"   -> "sq_subst_op1"
      [] at = "sq_subst_op1"   -> "sq_reduce_res"
      [] at = "sq_reduce_res"  -> "sq_wrapup"
      [] at = "sq_wrapup"      -> "done"
SqNextOf(file, at) == IF file = "seminar" THEN SeminarSqNext(at) ELSE SqNext(at)

\* ---------------------------------------------------- SquareOfPred: actions
\* construct_call up to the creation of the context (ocaml.py 483-512,
\* seminar.py 202-230)
SqConstructCall ==
    /\ pc = "start" /\ scene = "SquareOfPred"
    /\ call' = [ name |-> Verb("square_of_pred"), val |-> Verb(Str(arg)) ]
    /\ def_instance' = SqInstance
    /\ pc' = SqNextOf(module, "start")
    /\ UNCHANGED << scene, module, arg, stack, context, shown, camera_frame,
                    def_box, result, raised, trace >>

\* context = CallContext(def_instance, self)           (ocaml 515, seminar 233)
SqNewContext ==
    /\ pc = "sq_ctx" /\ scene = "SquareOfPred"
    /\ context' = NewEntries
    /\ shown' = shown \cup {0}
    /\ trace' = Append(trace, Ev("Context", 0, arg, "", "", "", "", 0))
    /\ pc' = SqNextOf(module, "sq_ctx")
    /\ UNCHANGED << scene, module, arg, call, stack, def_instance,
                    camera_frame, def_box, result, raised >>

\* context.add("x", call["val"])                       (ocaml 517, seminar 235)
SqBindX ==
    /\ pc = "sq_add_x" /\ scene = "SquareOfPred"
    /\ context' = Add(context, "x", call.val)
    /\ trace' = Append(trace, Ev("Bind", 0, arg, "", "x", "", call.val, 0))
    /\ pc' = SqNextOf(module, "sq_add_x")
    /\ UNCHANGED << scene, module, arg, call, stack, def_instance, shown,
                    camera_frame, def_box, result, raised >>

\* context.replace_occurrence(-1, occurrence) on a part of def_instance
SqSubstitute(at, field, target) ==
    /\ pc = at /\ scene = "SquareOfPred"
    /\ IF HasVal(context, -1)
       THEN /\ def_instance' = [def_instance EXCEPT
                                  ![field] = ReplaceOccurrence(context, -1)]
            /\ trace' = Append(trace, Ev("Substitute", 0, arg, target,
                                         EntryAt(context, -1).name,
                                         def_instance[field],
                                         ReplaceOccurrence(context, -1), 0))
            /\ pc' = SqNextOf(module, at)
            /\ raised' = raised
       ELSE /\ raised' = "TypeError"
            /\ pc' = "crashed"
            /\ UNCHANGED << def_instance, trace >>
    /\ UNCHANGED << scene, module, arg, call, stack, context, shown,
                    camera_frame, def_box, result >>

\* context.replace_occurrence(-1, def_instance["pred"]["def"]["val"]["x"])
\*                                                     (ocaml 521, seminar 239)
SqSubstX == SqSubstitute("sq_subst_x", "pred_def_val_x", "pred.def.val.x")

\* replace_expr(self, def_instance["pred"]["def"]["val"], f"{val-1}")
\*                                                     (ocaml 525, seminar 243)
SqReducePred ==
    /\ pc = "sq_reduce_pred" /\ scene = "SquareOfPred"
    /\ def_instance' = [def_instance EXCEPT
                          !.pred_def_val = Verb(Str(SqPredOf(module, arg)))]
    /\ trace' = Append(trace, Ev("Reduce", 0, arg, "pred.def.val", "",
                                 def_instance.pred_def_val,
                                 Verb(Str(SqPredOf(module, arg))), SqPredOf(module, arg)))
    /\ pc' = SqNextOf(module, "sq_reduce_pred")
    /\ UNCHANGED << scene, module, arg, call, stack, context, shown,
                    camera_frame, def_box, result, raised >>

\* context.add("pred\\_x", def_instance["pred"]["def"]["val"], ...), which
\* also fades def_instance["pred"] out           (ocaml 528-536, seminar 246-255)
SqBindPredX ==
    /\ pc = "sq_add_pred" /\ scene = "SquareOfPred"
    /\ context' = Add(context, "pred\\_x", def_instance.pred_def_val)
    /\ def_instance' = [def_instance EXCEPT !.faded = @ \cup {"pred"}]
    /\ trace' = Append(trace, Ev("Bind", 0, arg, "", "pred\\_x", "",
                                 def_instance.pred_def_val, 0))
    /\ pc' = SqNextOf(module, "sq_add_pred")
    /\ UNCHANGED << scene, module, arg, call, stack, shown, camera_frame,
                    def_box, result, raised >>

\* context.replace_occurrence(-1, def_instance["res"]["op2"])
\*                                                     (ocaml 540, seminar 259)
SqSubstOp2 == SqSubstitute("sq_subst_op2", "op2", "res.op2")

\* context.replace_occurrence(-1, def_instance["res"]["op1"])
\*                                                     (ocaml 541, seminar 260)
SqSubstOp1 == SqSubstitute("sq_subst_op1", "op1", "res.op1")

\* replace_expr(self, def_instance["res"], f"{(val-1) * (val-1)}")
\*                                               (ocaml 545-550, seminar 264-269)
SqReduceRes ==
    /\ pc = "sq_reduce_res" /\ scene = "SquareOfPred"
    /\ def_instance' = [def_instance EXCEPT !.res = Verb(Str(SqResOf(module, arg)))]
    /\ result' = [ val |-> SqResOf(module, arg), mobject |-> Verb(Str(SqResOf(module, arg))),
                   set |-> TRUE ]
    /\ trace' = Append(trace, Ev("Reduce", 0, arg, "res", "",
                                 def_instance.res, Verb(Str(SqResOf(module, arg))),
                                 SqResOf(module, arg)))
    /\ pc' = SqNextOf(module, "sq_reduce_res")
    /\ UNCHANGED << scene, module, arg, call, stack, context, shown,
                    camera_frame, def_box, raised >>

\* the wrap-up play: the context and the call fade out, the result is centred
\*                                               (ocaml 552-559, seminar 271-278)
SqWrapUp ==
    /\ pc = "sq_wrapup" /\ scene = "SquareOfPred"
    /\ shown' = FadeOutEntries(shown, 0)
    /\ pc' = SqNextOf(module, "sq_wrapup")
    /\ UNCHANGED << scene, module, arg, call, stack, def_instance, context,
                    camera_frame, def_box, result, raised, trace >>

\* ------------------------------------------------------------ specification
Next ==
    \/ FactConstructCall
    \/ FactNewContext
    \/ FactBindN
    \/ FactCondSubst
    \/ FactCondReduce
    \/ FactBranch
    \/ FactReturnBase
    \/ FactArgSubst
    \/ FactArgReduce
    \/ FactShift
    \/ FactRecursiveCall
    \/ FactRecursionError
    \/ FactUnshift
    \/ FactLeftSubst
    \/ FactRecReduce
    \/ FactReturnRec
    \/ FactWrapUp
    \/ SqConstructCall
    \/ SqNewContext
    \/ SqBindX
    \/ SqSubstX
    \/ SqReducePred
    \/ SqBindPredX
    \/ SqSubstOp2
    \/ SqSubstOp1
    \/ SqReduceRes
    \/ SqWrapUp

Spec == Init /\ [][Next]_vars

\* The scene is a sequential script: construct_call and eval_call run each
\* statement in turn and every scene.play returns, so a step that can be
\* taken is taken.
FairSpec == Spec /\ WF_vars(Next)

\* ------------------------------------------- CallContext through its methods
\* A CallContext used on its own: after __init__, any caller may call add and
\* replace_occurrence with any arguments, in any order.
CtxNames == {"n", "x", "pred\\_x"}
CtxVals == {"\\verb|0|", "\\verb|1|"}

InitCtx ==
    /\ scene = "CallContext"
    /\ module \in {"ocaml", "seminar"}
    /\ arg = 0
    /\ pc = "ready"
    /\ call = [ name |-> "", val |-> "" ]
    /\ stack = << >>
    /\ def_instance = SqInstance
    /\ context = NewEntries
    /\ shown = {0}
    /\ camera_frame = 0
    /\ def_box = 0
    /\ result = NoResult
    /\ raised = "none"
    /\ trace = << >>

\* CallContext.add(name, val_orig): no condition on name, the association is
\* appended to self.entries
CtxAdd ==
    /\ pc = "ready" /\ scene = "CallContext"
    /\ Len(context) <= MaxAdds
    /\ \E name \in CtxNames, val_orig \in CtxVals :
          /\ context' = Add(context, name, val_orig)
          /\ trace' = Append(trace, Ev("Bind", 0, 0, "", name, "", val_orig, 0))
    /\ UNCHANGED << scene, module, arg, pc, call, stack, def_instance, shown,
                    camera_frame, def_box, result, raised >>

\* CallContext.replace_occurrence(index, occurrence) with an index that
\* selects an association: the occurrence becomes a copy of its value
CtxReplaceOccurrence ==
    /\ pc = "ready" /\ scene = "CallContext"
    /\ \E index \in (0 - Len(context)) .. (Len(context) - 1) :
          /\ HasVal(context, index)
          /\ call' = [ name |-> EntryAt(context, index).name,
                       val |-> ReplaceOccurrence(context, index) ]
    /\ UNCHANGED << scene, module, arg, pc, stack, def_instance, context,
                    shown, camera_frame, def_box, result, raised, trace >>

\* the same with an index that selects the title line: entry["val"] of a
\* TextMobject is an index by a string, which raises
CtxReplaceTitle ==
    /\ pc = "ready" /\ scene = "CallContext"
    /\ \E index \in (0 - Len(context)) .. (Len(context) - 1) :
          ~ HasVal(context, index)
    /\ raised' = "TypeError"
    /\ pc' = "crashed"
    /\ UNCHANGED << scene, module, arg, call, stack, def_instance, context,
                    shown, camera_frame, def_box, result, trace >>

NextCtx ==
    \/ CtxAdd
    \/ CtxReplaceOccurrence
    \/ CtxReplaceTitle

SpecCtx == InitCtx /\ [][NextCtx]_vars

\* ================================================================== claims
Finished == pc \in {"wrapup", "done"}

RECURSIVE Factorial(_)
Factorial(n) == IF n = 0 THEN 1 ELSE n * Factorial(n - 1)

\* C1: for every non-negative n, evaluating factorial of n raises nothing and
\* ends with the value n! (0! = 1), both as the value returned by the
\* outermost eval_call and as the text of the Mobject it returns.
C1_FactorialValue ==
    (scene = "Fact" /\ arg >= 0) =>
        /\ raised = "none"
        /\ Finished =>
              /\ result.set
              /\ result.val = Factorial(arg)
              /\ result.mobject = Verb(Str(Factorial(arg)))

C1_Witness ==
    /\ scene = "Fact" /\ pc = "done" /\ arg = 3
    /\ result.val = 6 /\ result.mobject = "\\verb|6|"

\* C2: for every integer x, in both versions of SquareOfPred, the evaluation
\* of square_of_pred x ends with the value (x-1)*(x-1) shown as the result.
C2_SquareOfPredValue ==
    (scene = "SquareOfPred" /\ Finished) =>
        /\ raised = "none"
        /\ result.set
        /\ result.val = (arg - 1) * (arg - 1)
        /\ result.mobject = Verb(Str((arg - 1) * (arg - 1)))
        /\ def_instance.res = result.mobject

C2_Witness ==
    /\ scene = "SquareOfPred" /\ module = "seminar" /\ pc = "done"
    /\ arg = -2 /\ result.val = 9 /\ def_instance.res = "\\verb|9|"

\* C3: evaluating factorial with a negative argument fails with
\* InvalidArgumentError before any step is produced: no step is ever played
\* and no activation of eval_call exists.
C3_NegativeRejected ==
    (scene = "Fact" /\ arg < 0) =>
        /\ trace = << >>
        /\ stack = << >>
        /\ pc # "start" => raised = "InvalidArgumentError"

\* The binary operations of the two functions: the occurrences that make the
\* left and the right operand, and the expression the Reduce step replaces.
\* The right operand of `n * fact (n - 1)` is the recursive call: its argument
\* and every step of the deeper activations.
BinOps ==
    { [ left |-> {"rec.n"}, right |-> {"rec.call.arg.n", "rec.call.arg"},
        deeper |-> TRUE, reduce |-> "rec" ],
      [ left |-> {"rec.call.arg.n"}, right |-> {},
        deeper |-> FALSE, reduce |-> "rec.call.arg" ],
      [ left |-> {"if.cond.n"}, right |-> {},
        deeper |-> FALSE, reduce |-> "if.cond" ],
      [ left |-> {"res.op1"}, right |-> {"res.op2"},
        deeper |-> FALSE, reduce |-> "res" ],
      [ left |-> {"pred.def.val.x"}, right |-> {},
        deeper |-> FALSE, reduce |-> "pred.def.val" ] }

Depths == 0 .. RecursionLimit

InLeft(op, d, e) ==
    e.kind \in {"Substitute", "Reduce"} /\ e.depth = d /\ e.target \in op.left
InRight(op, d, e) ==
    \/ e.kind \in {"Substitute", "Reduce"} /\ e.depth = d /\ e.target \in op.right
    \/ op.deeper /\ e.depth > d
IsReduce(op, d, e) ==
    e.kind = "Reduce" /\ e.depth = d /\ e.target = op.reduce

\* The trace grows by one step at a time and every prefix of it is the trace
\* of an earlier state, so a property of all pairs of steps is stated, in
\* every reachable state, of the newest step against each earlier one.
Newest == trace[Len(trace)]
Earlier == 1 .. Len(trace) - 1

\* C4 (as claimed): every binary operation is evaluated strictly left before
\* right: every step of the left operand precedes every step of the right
\* operand, and the Reduce step comes after both.
C4_LeftBeforeRight ==
    trace # << >> =>
        \A op \in BinOps, d \in Depths : \A i \in Earlier :
            /\ ~ (InRight(op, d, trace[i]) /\ InLeft(op, d, Newest))
            /\ ~ ( /\ IsReduce(op, d, trace[i])
                   /\ InLeft(op, d, Newest) \/ InRight(op, d, Newest) )

\* C4 (amended): every binary operation is evaluated strictly right before
\* left: every step of the right operand (for n * fact (n - 1): the argument
\* and the whole recursive call; for pred_x * pred_x: op2) precedes every
\* step of the left operand, and the Reduce step comes after both, which have
\* both been evaluated by then.
C4_RightBeforeLeft ==
    trace # << >> =>
        \A op \in BinOps, d \in Depths :
            /\ \A i \in Earlier :
                  /\ ~ (InLeft(op, d, trace[i]) /\ InRight(op, d, Newest))
                  /\ ~ ( /\ IsReduce(op, d, trace[i])
                         /\ InLeft(op, d, Newest) \/ InRight(op, d, Newest) )
            /\ IsReduce(op, d, Newest) =>
                  /\ \E k \in Earlier : InLeft(op, d, trace[k])
                  /\ (op.right # {}) => \E k \in Earlier : InRight(op, d, trace[k])

C4_Witness ==
    /\ scene = "Fact" /\ arg = 2
    /\ \E j \in DOMAIN trace :
          /\ trace[j].kind = "Reduce" /\ trace[j].target = "rec"
          /\ trace[j].depth = 0 /\ trace[j].res = 2
          /\ trace[j - 1].kind = "Substitute" /\ trace[j - 1].target = "rec.n"
          /\ trace[j - 2].kind = "Return" /\ trace[j - 2].depth = 1

IsStep(e, kind, depth, target) ==
    e.kind = kind /\ e.depth = depth /\ e.target = target

\* C5: at every recursive call of factorial the argument n - 1 is evaluated
\* with the caller's binding of n (the occurrence is substituted by the
\* caller's value, then the argument is reduced to that value minus 1) before
\* the callee's context is created, and the callee's context, which holds
\* nothing else, binds n to exactly that reduced value.
C5_ArgumentBeforeCallee ==
    (scene = "Fact" /\ trace # << >>) =>
        LET j == Len(trace)
            e == Newest
        IN  /\ (e.kind = "Context" /\ e.depth > 0) =>
                  /\ j >= 3
                  /\ IsStep(trace[j - 2], "Substitute", e.depth - 1, "rec.call.arg.n")
                  /\ trace[j - 2].text = Verb(Str(trace[j - 2].val))
                  /\ IsStep(trace[j - 1], "Reduce", e.depth - 1, "rec.call.arg")
                  /\ trace[j - 1].val = trace[j - 2].val
                  /\ trace[j - 1].text = Verb(Str(trace[j - 2].val - 1))
                  /\ e.val = trace[j - 2].val - 1
                  /\ Top.context = << Title >>
            /\ (e.kind = "Bind" /\ e.depth > 0) =>
                  /\ j >= 4
                  /\ IsStep(trace[j - 1], "Context", e.depth, "")
                  /\ e.name = "n"
                  /\ e.text = trace[j - 2].text
                  /\ e.text = Verb(Str(e.val))
                  /\ Top.val = e.val
                  /\ Top.context =
                        << Title, [kind |-> "assoc", name |-> "n", val |-> e.text] >>

C5_Witness ==
    /\ scene = "Fact" /\ arg = 3 /\ trace # << >>
    /\ Newest.kind = "Bind" /\ Newest.depth = 2 /\ Newest.text = "\\verb|1|"
    /\ Top.val = 1

\* C6: bindings made by a deeper call never alter an earlier call's frame: in
\* every state each active call's context binds n, and only n, to that call's
\* own argument (the outermost argument minus the depth), and every
\* substitution of n, also the one made after the recursive call returned,
\* shows the value of the call that makes it.
C6_FramesIndependent ==
    scene = "Fact" =>
        /\ \A d \in 1 .. Len(stack) :
              /\ stack[d].val = arg - (d - 1)
              /\ d < Len(stack) => Len(stack[d].context) = 2
              /\ Len(stack[d].context) >= 2 =>
                    stack[d].context =
                        << Title, [kind |-> "assoc", name |-> "n",
                                   val |-> Verb(Str(stack[d].val))] >>
        /\ (trace # << >> /\ Newest.kind = "Substitute") =>
              /\ Newest.name = "n"
              /\ Newest.val = arg - Newest.depth
              /\ Newest.text = Verb(Str(arg - Newest.depth))

C6_Witness ==
    /\ scene = "Fact" /\ arg = 2 /\ trace # << >>
    /\ IsStep(Newest, "Substitute", 0, "rec.n") /\ Newest.text = "\\verb|2|"
    /\ \E i \in Earlier : trace[i].kind = "Bind" /\ trace[i].depth = 2
                          /\ trace[i].text = "\\verb|0|"

\* the arm of the conditional a step belongs to ("none": the step belongs to
\* neither arm)
ArmOf(e) ==
    CASE e.kind \in {"Substitute", "Reduce"}
           /\ e.target \in {"rec.call.arg.n", "rec.call.arg", "rec.n", "rec"} -> "rec"
      [] e.kind = "Return" -> e.target
      [] OTHER -> "none"

\* C7: in every factorial call the condition n = 0 is evaluated first (right
\* after n is bound), then one arm is chosen: the base arm iff the call's n
\* is 0; every step of an arm, and every step of a deeper call, comes after
\* the choice and belongs to the chosen arm, and it is the other arm that is
\* struck out.
C7_OneArm ==
    scene = "Fact" =>
        /\ \A d \in 1 .. Len(stack) :
              stack[d].call.faded # {} =>
                  stack[d].call.faded \cap {"base", "rec"} =
                      { IF stack[d].val = 0 THEN "rec" ELSE "base" }
        /\ trace # << >> =>
              LET j == Len(trace)
                  e == Newest
              IN  /\ e.kind = "Branch" =>
                        /\ j >= 4
                        /\ IsStep(trace[j - 3], "Bind", e.depth, "")
                        /\ IsStep(trace[j - 2], "Substitute", e.depth, "if.cond.n")
                        /\ IsStep(trace[j - 1], "Reduce", e.depth, "if.cond")
                        /\ trace[j - 1].text = Verb(Lower(e.val = 0))
                        /\ e.target = (IF e.val = 0 THEN "base" ELSE "rec")
                        /\ \A i \in Earlier :
                              trace[i].depth = e.depth =>
                                  /\ trace[i].kind # "Branch"
                                  /\ ArmOf(trace[i]) = "none"
                  /\ ArmOf(e) # "none" =>
                        /\ ArmOf(e) = (IF e.val = 0 THEN "base" ELSE "rec")
                        /\ \E i \in Earlier :
                              IsStep(trace[i], "Branch", e.depth, ArmOf(e))
                  /\ e.depth > 0 =>
                        \E i \in Earlier :
                            IsStep(trace[i], "Branch", e.depth - 1, "rec")

C7_Witness ==
    /\ scene = "Fact" /\ arg = 2 /\ trace # << >>
    /\ IsStep(Newest, "Return", 2, "base") /\ Newest.val = 0
    /\ \E i \in Earlier : IsStep(trace[i], "Branch", 2, "base")
    /\ \E i \in Earlier : IsStep(trace[i], "Branch", 1, "rec")

\* the entries of the context of the call being evaluated
CurrentEntries == IF scene = "Fact" THEN Top.context ELSE context

\* C8: every Substitute step replaces an occurrence by the value bound, in
\* the context of the call being evaluated, to the name that occurrence
\* shows: the entry selected by the index carries that name, and the text put
\* in place of the occurrence is the value of the binding of that name.
C8_SubstituteSameName ==
    (trace # << >> /\ Newest.kind = "Substitute") =>
        LET bound == { k \in 2 .. Len(CurrentEntries) :
                         Rendered(CurrentEntries[k].name) = Rendered(Newest.before) }
        IN  /\ Newest.before \in {"\\verb|n|", "\\verb|x|", "\\verb|pred_x|"}
            /\ Rendered(Newest.name) = Rendered(Newest.before)
            /\ bound # {}
            /\ \A k \in bound : CurrentEntries[k].val = Newest.text

C8_Witness ==
    /\ scene = "SquareOfPred" /\ arg = 3 /\ trace # << >>
    /\ IsStep(Newest, "Substitute", 0, "res.op1")
    /\ Newest.before = "\\verb|pred_x|" /\ Newest.name = "pred\\_x"
    /\ Newest.text = "\\verb|2|"
    /\ Len(context) = 3

\* C9: binding a name that already exists in a frame fails with
\* DuplicateBindingError and the frame gains no entry, so that the entries of
\* a context never hold two bindings that show the same name.
C9_NoDuplicateBinding ==
    \A i, j \in 2 .. Len(context) :
        i # j => Rendered(context[i].name) # Rendered(context[j].name)

Count(kind, depth) ==
    Cardinality({ i \in DOMAIN trace :
                    trace[i].kind = kind /\ trace[i].depth = depth })

\* C10: for every non-negative n, evaluating factorial(n) produces exactly
\* n+1 Bind/Return pairs: at each depth 0..n one context is created, one
\* binding made and, later, one value returned, and none at any other depth.
C10_BindReturnPairs ==
    (scene = "Fact" /\ arg >= 0 /\ Finished) =>
        /\ \A d \in 0 .. arg :
              /\ Count("Context", d) = 1
              /\ Count("Bind", d) = 1
              /\ Count("Return", d) = 1
              /\ \A i, j \in DOMAIN trace :
                    (IsStep(trace[i], "Bind", d, "") /\ trace[j].kind = "Return"
                        /\ trace[j].depth = d) => i < j
        /\ Cardinality({ i \in DOMAIN trace : trace[i].kind = "Context" }) = arg + 1
        /\ Cardinality({ i \in DOMAIN trace : trace[i].kind = "Bind" }) = arg + 1
        /\ Cardinality({ i \in DOMAIN trace : trace[i].kind = "Return" }) = arg + 1

C10_Witness ==
    /\ scene = "Fact" /\ arg = 3 /\ pc = "done"
    /\ Cardinality({ i \in DOMAIN trace : trace[i].kind = "Bind" }) = 4
    /\ Cardinality({ i \in DOMAIN trace : trace[i].kind = "Return" }) = 4

\* the Return steps played so far, in order
Returns == SelectSeq(trace, LAMBDA e : e.kind = "Return")

\* C11: in factorial(n), n >= 0, the returns happen innermost first and the
\* call at depth d returns (n-d)!: when a call returns, every deeper call
\* (depths d+1 .. n) has returned, the one just below it last, no call at its
\* depth or above has, and its value, also shown by the Mobject it returns,
\* is (n-d)!.
C11_ReturnsInnermostFirst ==
    (scene = "Fact" /\ arg >= 0 /\ trace # << >> /\ Newest.kind = "Return") =>
        LET d == Newest.depth
            k == Len(Returns)
        IN  /\ d \in 0 .. arg
            /\ Newest.res = Factorial(arg - d)
            /\ Newest.text = Verb(Str(Factorial(arg - d)))
            /\ k = arg - d + 1
            /\ \A i \in 1 .. k : Returns[i].depth = arg - (i - 1)

C11_Witness ==
    /\ scene = "Fact" /\ arg = 3 /\ pc = "done"
    /\ [ i \in 1 .. Len(Returns) |-> Returns[i].res ] = << 1, 1, 2, 6 >>
    /\ [ i \in 1 .. Len(Returns) |-> Returns[i].depth ] = << 3, 2, 1, 0 >>

\* what a step shows of the evaluation: its kind, the name it binds or
\* substitutes, and the text it puts on the scene
Stage(e) == [ kind |-> e.kind, name |-> e.name, text |-> e.text ]

\* the stages of square_of_pred x, in order
SqStages(x) ==
    << [ kind |-> "Context",    name |-> "",         text |-> "" ],
       [ kind |-> "Bind",       name |-> "x",        text |-> Verb(Str(x)) ],
       [ kind |-> "Substitute", name |-> "x",        text |-> Verb(Str(x)) ],
       [ kind |-> "Reduce",     name |-> "",         text |-> Verb(Str(x - 1)) ],
       [ kind |-> "Bind",       name |-> "pred\\_x", text |-> Verb(Str(x - 1)) ],
       [ kind |-> "Substitute", name |-> "pred\\_x", text |-> Verb(Str(x - 1)) ],
       [ kind |-> "Substitute", name |-> "pred\\_x", text |-> Verb(Str(x - 1)) ],
       [ kind |-> "Reduce",     name |-> "",         text |-> Verb(Str((x - 1) * (x - 1))) ] >>

\* the bindings of a context, without its title line
Bindings(entries) ==
    [ i \in 1 .. Len(entries) - 1 |->
        [ name |-> entries[i + 1].name, val |-> entries[i + 1].val ] ]

\* C12: for every x, in both versions of construct_call, square_of_pred x
\* goes through these stages in this order: empty context; x bound to the
\* argument; the occurrence of x substituted, which leaves the form `x - 1`
\* with the literal value; that form reduced to x-1; the reduced value bound
\* as pred_x; the two occurrences of pred_x substituted; the result
\* (x-1)*(x-1).  The steps played are at every moment a prefix of that
\* sequence, all of it once the call has finished, and the context holds
\* what has been bound so far.
C12_SquareOfPredStages ==
    scene = "SquareOfPred" =>
        LET n == Len(trace) IN
        /\ n <= Len(SqStages(arg))
        /\ [ i \in 1 .. n |-> Stage(trace[i]) ] = SubSeq(SqStages(arg), 1, n)
        /\ pc = "done" => n = Len(SqStages(arg))
        /\ n = 1 => context = << Title >>
        /\ n \in 2 .. 4 =>
              Bindings(context) = << [ name |-> "x", val |-> Verb(Str(arg)) ] >>
        /\ n = 3 =>
              /\ def_instance.pred_def_val_x = Verb(Str(arg))
              /\ def_instance.pred_def_val = Parts
        /\ n >= 5 =>
              Bindings(context) =
                  << [ name |-> "x", val |-> Verb(Str(arg)) ],
                     [ name |-> "pred\\_x", val |-> Verb(Str(arg - 1)) ] >>
        /\ n >= 7 =>
              { def_instance.op1, def_instance.op2 } = { Verb(Str(arg - 1)) }
        /\ { trace[i].target : i \in { j \in 6 .. 7 : j <= n } } \subseteq
              { "res.op1", "res.op2" }
        /\ n >= 7 => trace[6].target # trace[7].target

C12_Witness ==
    /\ scene = "SquareOfPred" /\ module = "ocaml" /\ arg = 5 /\ pc = "done"
    /\ [ i \in 1 .. Len(trace) |-> trace[i].text ] =
          << "", "\\verb|5|", "\\verb|5|", "\\verb|4|", "\\verb|4|",
             "\\verb|4|", "\\verb|4|", "\\verb|16|" >>
    /\ Bindings(context) = << [ name |-> "x", val |-> "\\verb|5|" ],
                              [ name |-> "pred\\_x", val |-> "\\verb|4|" ] >>

\* C13: for every non-negative n the evaluation of factorial(n) terminates:
\* the argument of each recursive call is its caller's minus exactly 1 and
\* never goes below 0, the base case 0 is reached, every started call
\* eventually returns, and construct_call runs to its end.
C13_Terminates ==
    /\ [] ( (scene = "Fact" /\ arg >= 0) =>
              /\ raised = "none"
              /\ \A d \in 1 .. Len(stack) : stack[d].val >= 0
              /\ \A d \in 2 .. Len(stack) : stack[d].val = stack[d - 1].val - 1 )
    /\ (scene = "Fact" /\ arg >= 0 /\ pc = "start")
          ~> (stack # << >> /\ Top.val = 0 /\ pc = "ret_base")
    /\ \A d \in 1 .. RecursionLimit :
          (scene = "Fact" /\ arg >= 0 /\ Len(stack) >= d) ~> (Len(stack) < d)
    /\ (scene = "Fact" /\ arg >= 0) ~> (pc = "done")

C13_Witness ==
    /\ scene = "Fact" /\ arg = 3 /\ pc = "done" /\ stack = << >>
    /\ \E i \in DOMAIN trace :
          IsStep(trace[i], "Return", 3, "base") /\ trace[i].val = 0
    /\ IsStep(Newest, "Return", 0, "rec")

\* the calls whose context has been created and not yet faded out
Active ==
    IF scene = "Fact"
    THEN { d \in 0 .. Len(stack) - 1 : stack[d + 1].context # << >> }
    ELSE IF context # << >> /\ pc # "done" THEN {0} ELSE {}

\* C14: a call's context is live from its creation until the evaluation of
\* that call completes, on the base-case return, on the recursive-case return
\* and at the wrap-up of SquareOfPred: the live contexts are exactly those of
\* the calls being evaluated, every call past its first statement has one,
\* and none is live once the scenario has finished.
C14_ContextLifetime ==
    /\ shown = Active
    /\ scene = "Fact" =>
          /\ Cardinality(shown) = Len(stack) - (IF pc = "ctx" THEN 1 ELSE 0)
          /\ \A d \in 1 .. Len(stack) - 1 : stack[d].context # << >>
          /\ Finished => shown = {}
    /\ scene = "SquareOfPred" =>
          /\ pc \in {"start", "sq_ctx", "done"} => shown = {}
          /\ pc \notin {"start", "sq_ctx", "done"} => shown = {0}
    /\ (trace # << >> /\ Newest.kind = "Return") => Newest.depth \notin shown

C14_Witness ==
    /\ scene = "Fact" /\ arg = 3 /\ pc = "unshift" /\ Len(stack) = 2
    /\ shown = {0, 1}
    /\ Count("Return", 3) = 1 /\ Count("Return", 2) = 1
    /\ IsStep(Newest, "Return", 2, "rec")

\* the steps that call context.replace_occurrence(-1, ...)
SubstitutePcs ==
    {"cond_subst", "arg_subst", "left_subst",
     "sq_subst_x", "sq_subst_op2", "sq_subst_op1"}

\* C15: replace_occurrence is never invoked with an index that resolves to
\* the title line: at every step that calls it with index -1 the context of
\* the running call holds at least one binding after the title, added by an
\* earlier Bind step of that same call, the indexed entry is that binding, and
\* no run raises the error that indexing the title would.
C15_NeverIndexesTitle ==
    /\ raised # "TypeError"
    /\ pc \in SubstitutePcs =>
          /\ Len(CurrentEntries) >= 2
          /\ CurrentEntries[1] = Title
          /\ HasVal(CurrentEntries, -1)
          /\ EntryAt(CurrentEntries, -1) # EntryAt(CurrentEntries, 0)
          /\ \E i \in DOMAIN trace :
                /\ trace[i].kind = "Bind"
                /\ trace[i].depth = (IF scene = "Fact" THEN Depth ELSE 0)
                /\ trace[i].name = EntryAt(CurrentEntries, -1).name
    /\ (trace # << >> /\ Newest.kind = "Substitute") =>
          Newest.name # Title.name

C15_Witness ==
    /\ scene = "Fact" /\ arg = 2 /\ pc = "cond_reduce" /\ Len(stack) = 2
    /\ Top.context = << Title, [kind |-> "assoc", name |-> "n",
                                val |-> Verb("1")] >>
    /\ IsStep(Newest, "Substitute", 1, "if.cond.n")
    /\ Newest.text = Verb("1")

\* the sum of the shifts applied by the first d activations
RECURSIVE Shifted(_)
Shifted(d) == IF d = 0 THEN 0 ELSE Shifted(d - 1) + stack[d].shift_vector

\* the displacement when the running activation was entered: its callers are
\* all waiting in their recursive call, each with its own shift applied
EntryDisplacement == Shifted(Len(stack) - 1)

\* C16: the shift applied to the camera frame and to the definition box
\* before a recursive call is undone after that call returns: both
\* displacements are equal in every state, while an activation runs they are
\* the displacement of its entry (plus its own shift between the shift and
\* the unshift around its recursive call), so at each return of eval_call
\* they are what they were at that call's entry, and both are zero when
\* construct_call finishes.
C16_ShiftUndone ==
    /\ camera_frame = def_box
    /\ (scene = "Fact" /\ stack # << >>) =>
          /\ \A d \in 1 .. Len(stack) - 1 : stack[d].shift_vector \in ShiftVectors
          /\ camera_frame = EntryDisplacement
                + (IF pc \in {"call", "unshift", "crashed"}
                   THEN Top.shift_vector ELSE 0)
          /\ pc \in {"ctx", "ret_base", "ret_rec"} =>
                camera_frame = EntryDisplacement
    /\ stack = << >> => (camera_frame = 0 /\ def_box = 0)
    /\ Finished => (camera_frame = 0 /\ def_box = 0)

C16_Witness ==
    /\ scene = "Fact" /\ arg = 3 /\ pc = "ret_rec" /\ Len(stack) = 2
    /\ stack[1].shift_vector = 2 /\ Top.shift_vector = 1
    /\ camera_frame = 2 /\ def_box = 2
    /\ Count("Return", 2) = 1

====
